---- MODULE Spec2Model ----
(***************************************************************************)
(* Model of velocity-learning.ipynb: the analytic signed-distance fields   *)
(* (get_sphere_sdf, get_star_sdf, make_annular), the normal-field          *)
(* extractor (get_normal_field) and the FullyConnected layer builder.      *)
(*                                                                         *)
(* Numbers.  A float is modelled as a fixed-point integer: the integer v   *)
(* stands for the real v / Scale.  Every product and quotient is rounded   *)
(* to the nearest representable value, as a floating-point operation is.   *)
(* Angles are integers in units of pi / Half.                              *)
(***************************************************************************)
EXTENDS Integers, Sequences, FiniteSets, TLC

VARIABLES
    op,        \* the call in progress: "idle" when the last one was returned
    fld,       \* the field closure called, or passed to normal_field
    fc_arg,    \* the fc_sizes FullyConnected was called with
    arg,       \* the tensor the caller passed, as it was at the call
    x,         \* the caller's tensor after the call
    out,       \* what the call returned or raised
    loc        \* star_sdf's local variables: the polar angle, bn and (folded) x

vars == <<op, fld, fc_arg, arg, x, out, loc>>

-----------------------------------------------------------------------------
(* Bounds of the model. *)

MaxCoord == 2       \* single query points have coordinates in -MaxCoord..MaxCoord
MaxBatch == 2       \* batches hold 1..MaxBatch points
MaxRadius == 2      \* shape radii r in 1..MaxRadius
MaxThick == 2       \* shell half-thicknesses t in 1..MaxThick
MaxLayers == 4      \* len(fc_sizes) in 0..MaxLayers
MaxWidth == 2       \* layer sizes in 1..MaxWidth

-----------------------------------------------------------------------------
(* Fixed-point arithmetic standing for torch.float32 arithmetic. *)

Scale == 1000

Abs(a) == IF a < 0 THEN -a ELSE a

Sign(a) == IF a > 0 THEN 1 ELSE IF a < 0 THEN -1 ELSE 0

Max(a, b) == IF a >= b THEN a ELSE b

Min(a, b) == IF a <= b THEN a ELSE b

\* a / b for integers, b # 0, rounded to the nearest integer (ties away from 0)
RoundDiv(a, b) == Sign(a) * Sign(b) * ((2 * Abs(a) + Abs(b)) \div (2 * Abs(b)))

\* the product of two fixed-point numbers
Mul(a, b) == RoundDiv(a * b, Scale)

\* the quotient of two fixed-point numbers, b # 0
Div(a, b) == RoundDiv(a * Scale, b)

RECURSIVE SumSeq(_)
SumSeq(s) == IF s = <<>> THEN 0 ELSE s[1] + SumSeq(Tail(s))

RECURSIVE SqrtSearch(_, _, _)
\* the largest k in lo..hi with k * k <= v (lo * lo <= v is given)
SqrtSearch(v, lo, hi) ==
    IF lo >= hi THEN lo
    ELSE LET mid == (lo + hi + 1) \div 2
         IN  IF mid * mid <= v THEN SqrtSearch(v, mid, hi)
             ELSE SqrtSearch(v, lo, mid - 1)

\* the integer nearest to the square root of v, 0 <= v < 40000 * 40000
ISqrt(v) ==
    LET k == SqrtSearch(v, 0, 40000)
    IN  IF v - k * k <= (k + 1) * (k + 1) - v THEN k ELSE k + 1

\* torch.sqrt of a fixed-point number
Sqrt(a) == ISqrt(a * Scale)

\* torch.sum(p ** 2, dim=-1) of one point
SumSq(p) == SumSeq([j \in 1..Len(p) |-> Mul(p[j], p[j])])

\* torch.norm(p, dim=-1) of one point
Norm(p) == Sqrt(SumSq(p))

\* torch.clamp(v, lo, hi)
Clamp(v, lo, hi) == Min(Max(v, lo), hi)

-----------------------------------------------------------------------------
(* Angles and trigonometry on the grid of multiples of pi / Half. *)

Half == 60

\* 1000 * cos(k * 3 degrees), k = 0..30
CosQ == << 1000, 999, 995, 988, 978, 966, 951, 934, 914, 891, 866, 839, 809,
           777, 743, 707, 669, 629, 588, 545, 500, 454, 407, 358, 309, 259,
           208, 156, 105, 52, 0 >>

\* torch.cos of the angle a * pi / Half
Cos(a) ==
    LET m == a % (2 * Half)
        f == IF m > Half THEN 2 * Half - m ELSE m
    IN  IF 2 * f <= Half THEN CosQ[f + 1] ELSE -CosQ[(Half - f) + 1]

\* torch.sin of the angle a * pi / Half
Sin(a) == Cos(a - Half \div 2)

\* the projection of the point (px, py) on the direction of the angle a
Along(py, px, a) == px * Cos(a) + py * Sin(a)

\* the grid angles of the closed quadrant the point (px, py) lies in
Quadrant(py, px) ==
    IF py >= 0
    THEN (IF px >= 0 THEN 0..(Half \div 2) ELSE (Half \div 2)..(Half - 1))
    ELSE (IF px >= 0 THEN (-(Half \div 2))..0 ELSE (1 - Half)..(-(Half \div 2)))

\* the grid angle on whose direction the point (px, py) projects longest:
\* no shorter than on either neighbour
Nearest(py, px) ==
    CHOOSE a \in Quadrant(py, px) :
        /\ Along(py, px, a) >= Along(py, px, a - 1)
        /\ Along(py, px, a) >= Along(py, px, a + 1)

\* The results torch.atan2(py, px) can have.  The sign of a zero coordinate
\* is not part of an integer, so where the result depends on it (the
\* negative x axis and the origin) every result a signed zero can give is
\* possible; elsewhere it is the grid angle nearest to the point's direction.
Atan2(py, px) ==
    IF py = 0 /\ px = 0 THEN {0, Half, -Half}
    ELSE IF py = 0 /\ px < 0 THEN {Half, -Half}
    ELSE {Nearest(py, px)}

-----------------------------------------------------------------------------
(* Tensors, scalar fields and call results. *)

\* a tensor of shape (B, d): its rows, and its requires_grad flag
Tensor(data, rg) == [data |-> data, requires_grad |-> rg]

\* A scalar field closure: the primitive with its captured parameters, and
\* the thicknesses of the make_annular wrappers around it, innermost first.
Field(prim, r, n, m, shells) ==
    [prim |-> prim, r |-> r, n |-> n, m |-> m, shells |-> shells]

NoField == Field("none", 0, 0, 0, <<>>)

\* a call that returned the value v
Ok(v) == [exc |-> "none", v |-> v]

\* a call that raised the exception e
Raise(e) == [exc |-> e, v |-> <<>>]

\* get_sphere_sdf(r)
get_sphere_sdf(r) == Field("sphere", r, 0, 0, <<>>)

\* get_star_sdf(r, n, m)
get_star_sdf(r, n, m) == Field("star", r, n, m, <<>>)

\* make_annular(sdf_func, r)
make_annular(sdf_func, r) ==
    [sdf_func EXCEPT !.shells = Append(sdf_func.shells, r)]

\* the sdf_func a make_annular closure captured
Wrapped(f) == [f EXCEPT !.shells = SubSeq(f.shells, 1, Len(f.shells) - 1)]

-----------------------------------------------------------------------------
(* get_sphere_sdf *)

\* sphere_sdf with the radius left unsquared: torch.sum(x ** 2, dim=-1) - r
sphere_sdf_radius_unsquared(r, data) ==
    Ok([i \in 1..Len(data) |-> SumSq(data[i]) - r])

\* sphere_sdf(x): torch.sum(x ** 2, dim=-1) - r ** 2
sphere_sdf(r, data) ==
    Ok([i \in 1..Len(data) |-> SumSq(data[i]) - Mul(r, r)])

-----------------------------------------------------------------------------
(* get_star_sdf *)

\* an = pi / n, en = pi / m (exact for the n that divide Half)
HalfAngle(n) == Half \div n

\* acs = (cos an, sin an), ecs = (cos en, sin en)
CosSin(a) == <<Cos(a), Sin(a)>>

\* a % b with the sign of the dividend, as C's fmod defines it
Remainder_truncated(a, b) == IF a >= 0 THEN a % b ELSE -((-a) % b)

\* a % b with the sign of the divisor, as Python and torch.remainder define it
Remainder(a, b) == a % b

\* bn = torch.atan2(x[..., 1], x[..., 0]) % (2.0 * an) - an, for one point
\* whose polar angle is theta
FoldAngle(theta, an) == Remainder(theta, 2 * an) - an

\* torch.norm(x, dim=-1, keepdim=True) * (cos bn, |sin bn|), for one point
FoldPoint(p, bn) ==
    LET norm == Norm(p)
    IN  <<Mul(norm, Cos(bn)), Mul(norm, Abs(Sin(bn)))>>

\* StarEdge with the projection clamped unnegated: clamp(dot_product, ...)
StarEdge_dot_unnegated(r, n, m, q) ==
    LET acs == CosSin(HalfAngle(n))
        ecs == CosSin(HalfAngle(m))
        x1  == [j \in 1..2 |-> q[j] - Mul(r, acs[j])]
        dot_product == Mul(x1[1], ecs[1]) + Mul(x1[2], ecs[2])
        c   == Clamp(dot_product, 0, Div(Mul(r, acs[2]), ecs[2]))
        x2  == [j \in 1..2 |-> x1[j] + Mul(ecs[j], c)]
    IN  Norm(x2) * Sign(x2[1])

\* the last four lines of star_sdf, for one folded point q
StarEdge(r, n, m, q) ==
    LET acs == CosSin(HalfAngle(n))
        ecs == CosSin(HalfAngle(m))
        x1  == [j \in 1..2 |-> q[j] - Mul(r, acs[j])]
        dot_product == Mul(x1[1], ecs[1]) + Mul(x1[2], ecs[2])
        c   == Clamp(-dot_product, 0, Div(Mul(r, acs[2]), ecs[2]))
        x2  == [j \in 1..2 |-> x1[j] + Mul(ecs[j], c)]
    IN  Norm(x2) * Sign(x2[1])

\* the local variables of star_sdf per point: the polar angle, bn and the
\* folded x
StarLocals(n, data, theta) ==
    LET bn == [i \in 1..Len(data) |-> FoldAngle(theta[i], HalfAngle(n))]
    IN  [theta |-> theta,
         bn |-> bn,
         folded |-> [i \in 1..Len(data) |-> FoldPoint(data[i], bn[i])]]

NoLocals == [theta |-> <<>>, bn |-> <<>>, folded |-> <<>>]

\* x[..., 1] exists
HasTwoColumns(data) == \A i \in 1..Len(data) : Len(data[i]) >= 2

\* star_sdf(x), theta[i] being the value torch.atan2 returned for point i
star_sdf(r, n, m, data, theta) ==
    IF ~HasTwoColumns(data) THEN Raise("IndexError")
    ELSE LET l == StarLocals(n, data, theta)
         IN  Ok([i \in 1..Len(data) |-> StarEdge(r, n, m, l.folded[i])])

RECURSIVE Thetas(_)
\* the values torch.atan2 can return for the points of the batch, in order
Thetas(data) ==
    IF data = <<>> THEN {<<>>}
    ELSE IF Len(data[1]) < 2 THEN {<<0>> \o th : th \in Thetas(Tail(data))}
    ELSE {<<a>> \o th : a \in Atan2(data[1][2], data[1][1]),
                         th \in Thetas(Tail(data))}

-----------------------------------------------------------------------------
(* make_annular, and the evaluation of a field closure *)

\* onion_sdf without the absolute value: sdf_values - r
onion_sdf_no_abs(sdf_values, r) ==
    IF sdf_values.exc # "none" THEN sdf_values
    ELSE Ok([i \in 1..Len(sdf_values.v) |-> sdf_values.v[i] - r])

\* onion_sdf with the absolute value taken last: torch.abs(sdf_values - r)
onion_sdf_abs_last(sdf_values, r) ==
    IF sdf_values.exc # "none" THEN sdf_values
    ELSE Ok([i \in 1..Len(sdf_values.v) |-> Abs(sdf_values.v[i] - r)])

\* torch.abs(sdf_values) - r
onion_sdf(sdf_values, r) ==
    IF sdf_values.exc # "none" THEN sdf_values
    ELSE Ok([i \in 1..Len(sdf_values.v) |-> Abs(sdf_values.v[i]) - r])

RECURSIVE Eval(_, _, _)
\* f(x) for a field closure f
Eval(f, data, theta) ==
    IF f.shells # <<>>
    THEN onion_sdf(Eval(Wrapped(f), data, theta), f.shells[Len(f.shells)])
    ELSE IF f.prim = "sphere" THEN sphere_sdf(f.r, data)
    ELSE star_sdf(f.r, f.n, f.m, data, theta)

-----------------------------------------------------------------------------
(* get_normal_field *)

\* The derivative of f's value at the point p with respect to p, times the
\* incoming cotangent g, as torch.autograd.grad propagates it backwards:
\* abs passes g * sign(input), sum and pow pass 2 * p[j] * g, and the
\* subtraction of a constant passes g unchanged.
RECURSIVE Backward(_, _, _)
Backward(f, p, g) ==
    IF f.shells # <<>>
    THEN Backward(Wrapped(f), p, g * Sign(Eval(Wrapped(f), <<p>>, <<>>).v[1]))
    ELSE [j \in 1..Len(p) |-> Mul(2 * p[j], g)]

\* torch.autograd.grad(outputs=f_value, inputs=x,
\*                     grad_outputs=torch.ones_like(f_value))[0]
Autograd(f, data) ==
    [i \in 1..Len(data) |-> Backward(f, data[i], Scale)]

\* torch.sum(grad ** 2): the sum over every element of the tensor
SumAll(grad) == SumSeq([i \in 1..Len(grad) |-> SumSq(grad[i])])

\* a float32 quotient a / b: a finite value, an infinity or NaN
FloatDiv(a, b) ==
    IF b # 0 THEN [cls |-> "finite", v |-> Div(a, b)]
    ELSE IF a = 0 THEN [cls |-> "nan", v |-> 0]
    ELSE [cls |-> "inf", v |-> Sign(a)]

\* torch.sqrt(torch.sum(grad ** 2))
GradNorm(grad) == Sqrt(SumAll(grad))

\* normal = grad / torch.sqrt(torch.sum(grad ** 2))
Normalize(grad) ==
    LET norm == GradNorm(grad)
    IN  [i \in 1..Len(grad) |->
            [j \in 1..Len(grad[i]) |-> FloatDiv(grad[i][j], norm)]]

\* x = x.requires_grad_(True): sets the flag of the caller's tensor in place
requires_grad_(t) == [t EXCEPT !.requires_grad = TRUE]

\* normal_field(x) for f a sphere_sdf or an onion_sdf around one
normal_field(f, data) == Ok(Normalize(Autograd(f, data)))

-----------------------------------------------------------------------------
(* FullyConnected.__init__ *)

Linear(size_in, size_out) ==
    [type |-> "Linear", size_in |-> size_in, size_out |-> size_out]

Activation == [type |-> "Sine", size_in |-> 0, size_out |-> 0]

\* fc_sizes[:-1]
AllButLast(s) == SubSeq(s, 1, Len(s) - 1)

\* fc_sizes[1:-1]
Inner(s) == SubSeq(s, 2, Len(s) - 1)

\* zip(a, b): pairs up to the length of the shorter sequence
Zip(a, b) == [i \in 1..Min(Len(a), Len(b)) |-> <<a[i], b[i]>>]

RECURSIVE HiddenLayers(_)
\* the loop: a Linear and an activation per pair
HiddenLayers(pairs) ==
    IF pairs = <<>> THEN <<>>
    ELSE <<Linear(pairs[1][1], pairs[1][2]), Activation>>
             \o HiddenLayers(Tail(pairs))

\* the loop's pairs with the last size left in: zip(fc_sizes[:-1], fc_sizes[1:])
LoopPairs_to_last(fc_sizes) == Zip(AllButLast(fc_sizes), Tail(fc_sizes))

\* the pairs the loop of __init__ iterates over
LoopPairs(fc_sizes) == Zip(AllButLast(fc_sizes), Inner(fc_sizes))

\* FullyConnected(fc_sizes): the layers of self.model, in order
FullyConnected(fc_sizes) ==
    IF Len(fc_sizes) < 2 THEN Raise("IndexError")
    ELSE Ok(HiddenLayers(LoopPairs(fc_sizes))
              \o <<Linear(fc_sizes[Len(fc_sizes) - 1], fc_sizes[Len(fc_sizes)])>>)

-----------------------------------------------------------------------------
(* The inputs the calls are made with. *)

Dims == {1, 2, 3}

Coords == {k * Scale : k \in (-MaxCoord)..MaxCoord}

\* single query points of every dimension
SinglePoints == UNION {[1..d -> Coords] : d \in Dims}

\* batches of several points are made of the corners of the unit square
UnitPlanar == [1..2 -> {0, Scale}]

Batches ==
    {<<p>> : p \in SinglePoints}
        \cup UNION {[1..b -> UnitPlanar] : b \in 2..MaxBatch}

Inputs == {Tensor(d, rg) : d \in Batches, rg \in BOOLEAN}

Radii == {k * Scale : k \in 1..MaxRadius}

Thicknesses == {k * Scale : k \in 1..MaxThick}

StarOrders == {2, 3, 5}

Spheres == {get_sphere_sdf(r) : r \in Radii}

Stars == {get_star_sdf(r, n, m) : r \in Radii, n \in StarOrders, m \in StarOrders}

Onions(fields) == {make_annular(f, t) : f \in fields, t \in Thicknesses}

RECURSIVE SeqsUpTo(_, _)
\* the sequences over S of length 0..n
SeqsUpTo(S, n) ==
    IF n = 0 THEN {<<>>}
    ELSE LET shorter == SeqsUpTo(S, n - 1)
         IN  shorter \cup {Append(q, e) : q \in {q \in shorter : Len(q) = n - 1}, e \in S}

LayerSizes == SeqsUpTo(1..MaxWidth, MaxLayers)

NoTensor == Tensor(<<>>, FALSE)

-----------------------------------------------------------------------------
(* The calls. *)

Init ==
    /\ op = "idle"
    /\ fld = NoField
    /\ fc_arg = <<>>
    /\ arg = NoTensor
    /\ x = NoTensor
    /\ out = Ok(<<>>)
    /\ loc = NoLocals

\* sphere_sdf(t), sphere_sdf = get_sphere_sdf(r)
CallSphere ==
    /\ op = "idle"
    /\ \E r \in Radii, t \in Inputs :
           /\ op' = "sphere_sdf"
           /\ fld' = get_sphere_sdf(r)
           /\ arg' = t
           /\ x' = t
           /\ out' = sphere_sdf(r, t.data)
           /\ UNCHANGED <<fc_arg, loc>>

\* star_sdf(t), star_sdf = get_star_sdf(r, n, m)
CallStar ==
    /\ op = "idle"
    /\ \E t \in Inputs :
           \E theta \in Thetas(t.data), f \in Stars :
               /\ op' = "star_sdf"
               /\ fld' = f
               /\ arg' = t
               /\ x' = t
               /\ out' = star_sdf(f.r, f.n, f.m, t.data, theta)
               /\ loc' = IF HasTwoColumns(t.data)
                         THEN StarLocals(f.n, t.data, theta) ELSE NoLocals
               /\ UNCHANGED fc_arg

\* onion_sdf(t), onion_sdf = make_annular(f, r) for f a sphere_sdf or an
\* onion_sdf around one
CallOnion ==
    /\ op = "idle"
    /\ \E f \in Spheres \cup Onions(Spheres), r \in Thicknesses, t \in Inputs :
           /\ op' = "onion_sdf"
           /\ fld' = make_annular(f, r)
           /\ arg' = t
           /\ x' = t
           /\ out' = onion_sdf(Eval(f, t.data, <<>>), r)
           /\ UNCHANGED <<fc_arg, loc>>

\* normal_field(t), normal_field = get_normal_field(f)
CallNormal ==
    /\ op = "idle"
    /\ \E f \in Spheres \cup Onions(Spheres), t \in Inputs :
           /\ op' = "normal_field"
           /\ fld' = f
           /\ arg' = t
           /\ x' = requires_grad_(t)
           /\ out' = normal_field(f, t.data)
           /\ UNCHANGED <<fc_arg, loc>>

\* FullyConnected(sizes)
BuildFullyConnected ==
    /\ op = "idle"
    /\ \E sizes \in LayerSizes :
           /\ op' = "FullyConnected"
           /\ fc_arg' = sizes
           /\ out' = FullyConnected(sizes)
           /\ UNCHANGED <<fld, arg, x, loc>>

\* the caller is done with the result and the next cell runs
Return ==
    /\ op # "idle"
    /\ op' = "idle"
    /\ fld' = NoField
    /\ fc_arg' = <<>>
    /\ arg' = NoTensor
    /\ x' = NoTensor
    /\ out' = Ok(<<>>)
    /\ loc' = NoLocals

Next ==
    \/ CallSphere
    \/ CallStar
    \/ CallOnion
    \/ CallNormal
    \/ BuildFullyConnected
    \/ Return

Spec == Init /\ [][Next]_vars

-----------------------------------------------------------------------------
(* What the claims are stated with. *)

\* the squared distance of the point p from the origin, times Scale * Scale
DistSq(p) == SumSeq([j \in 1..Len(p) |-> p[j] * p[j]])

Rows == 1..Len(arg.data)

\* the call in progress is f(x) for a sphere_sdf f
SphereCall == op = "sphere_sdf" /\ fld.prim = "sphere" /\ fld.shells = <<>>

SphereNormalCall ==
    op = "normal_field" /\ fld.prim = "sphere" /\ fld.shells = <<>>

\* the point p is not the origin
OffOrigin(p) == \E j \in 1..Len(p) : p[j] # 0

\* the float a is finite and within one rounding step of the fixed-point b
Near(a, b) == a.cls = "finite" /\ Abs(a.v - b) <= 1

\* the row of floats q is the point p divided by its own length
UnitAlong(q, p) ==
    /\ Len(q) = Len(p)
    /\ \A j \in 1..Len(p) : Near(q[j], Div(p[j], Norm(p)))

\* C2: for a batch of one or more non-origin points, normal_field of
\* sphere_sdf returns for each point the gradient divided by that point's own
\* gradient norm: the unit vector along the point's position vector.
C2_UnitNormalPerPoint ==
    (SphereNormalCall /\ \A i \in Rows : OffOrigin(arg.data[i])) =>
        /\ out.exc = "none"
        /\ Len(out.v) = Len(arg.data)
        /\ \A i \in Rows : UnitAlong(out.v[i], arg.data[i])

\* the call in progress is onion_sdf(x) for make_annular(get_sphere_sdf(r), t)
\* with 0 < t < r
ShellCall ==
    /\ op = "onion_sdf"
    /\ fld.prim = "sphere"
    /\ Len(fld.shells) = 1
    /\ 0 < fld.shells[1]
    /\ fld.shells[1] < fld.r

CallGrad == Autograd(fld, arg.data)

\* C4: when the gradient norm is zero (sphere_sdf at the origin),
\* normal_field raises a degenerate-normal condition and returns no NaN.
C4_DegenerateNormalRaises ==
    (op = "normal_field" /\ GradNorm(CallGrad) = 0) => out.exc # "none"

\* C5: star_sdf called with points whose last dimension is not 2 fails with
\* a dimensionality-mismatch error and returns no value.
C5_StarRejectsNon2D ==
    (op = "star_sdf" /\ \E i \in Rows : Len(arg.data[i]) # 2) =>
        out.exc # "none"

\* C6: every call leaves the caller's tensor as it was, its coordinates and
\* its requires_grad flag.
C6_InputUnchanged ==
    op \in {"sphere_sdf", "star_sdf", "onion_sdf", "normal_field"} => x = arg

\* the call in progress is make_annular(make_annular(sdf, t1), t2)(x)
TwiceCall == op = "onion_sdf" /\ Len(fld.shells) = 2

\* the value of the field f in the call in progress
ValueOf(f) == Eval(f, arg.data, <<>>).v

\* the field the two wrappers of the call in progress are around
Core == Wrapped(Wrapped(fld))

\* C7: make_annular applied with t1 and then t2 differs from one application
\* with t1 + t2 at every point where the wrapped sdf's magnitude is below t1.
C7_TwiceIsNotSum ==
    TwiceCall =>
        \A i \in Rows :
            Abs(ValueOf(Core)[i]) < fld.shells[1] =>
                out.v[i] # ValueOf(make_annular(Core, fld.shells[1] + fld.shells[2]))[i]

\* C7 witness: a double shell is evaluated at a point where the wrapped sdf's
\* magnitude is below t1
C7_Witness ==
    /\ TwiceCall
    /\ \E i \in Rows : Abs(ValueOf(Core)[i]) < fld.shells[1]

\* the call in progress is star_sdf(x) for get_star_sdf(1, 5, 5)
Star55Call ==
    op = "star_sdf" /\ fld = get_star_sdf(Scale, 5, 5) /\ out.exc = "none"

Origin2 == <<0, 0>>

\* C8 as claimed: star_sdf with n = 5, m = 5, r = 1 is strictly negative at
\* the origin.
C8_OriginNegative ==
    Star55Call => \A i \in Rows : arg.data[i] = Origin2 => out.v[i] < 0

\* C8 as amended: star_sdf with n = 5, m = 5, r = 1 is 0 at the origin, to
\* within one rounding step.
C8_OriginZero ==
    Star55Call => \A i \in Rows : arg.data[i] = Origin2 => Abs(out.v[i]) <= 1

\* C8 witness: the star with n = 5, m = 5, r = 1 is evaluated at the origin
C8_Witness ==
    Star55Call /\ \E i \in Rows : arg.data[i] = Origin2

\* the Linear layers among the layers
Linears(layers) == SelectSeq(layers, LAMBDA l : l.type = "Linear")

\* C9: for len(fc_sizes) = L >= 2, FullyConnected builds L - 1 Linear layers
\* in order, the i-th from fc_sizes[i] to fc_sizes[i+1], with one activation
\* after every Linear layer but the last and none after the last.
C9_LayerChain ==
    (op = "FullyConnected" /\ Len(fc_arg) >= 2) =>
        /\ out.exc = "none"
        /\ LET L == Len(fc_arg)
           IN  /\ Len(Linears(out.v)) = L - 1
               /\ Len(out.v) = 2 * L - 3
               /\ \A i \in 1..(L - 1) :
                     out.v[2 * i - 1] = Linear(fc_arg[i], fc_arg[i + 1])
               /\ \A i \in 1..(L - 2) : out.v[2 * i] = Activation

\* C9 witness: a network of at least three sizes that are not all equal
C9_Witness ==
    /\ op = "FullyConnected"
    /\ Len(fc_arg) >= 3
    /\ fc_arg[1] # fc_arg[2]
    /\ out.exc = "none"

\* the radii of p and q agree to within the rounding of the cosine table
SameRadius(p, q) == Abs(Norm(p) - Norm(q)) * 500 <= Norm(p) + 1000

====
